---- MODULE Spec2Model ----
(***************************************************************************)
(* Model of prd_adsb_converter: the message classes and conversion of      *)
(* prd_to_adsb.py and the UDP receive loop of app.py.                      *)
(*                                                                         *)
(* Python values are records [kind, chars, num]; a str is the sequence of  *)
(* its characters, so that str.upper() is computed character by character. *)
(* A Python object is [cls, dict]: its class and its instance __dict__;    *)
(* attribute lookup falls back to the class attributes, as in Python.      *)
(***************************************************************************)
EXTENDS Integers, Sequences, FiniteSets, TLC

VARIABLES callsign_icons, prd_message, adsb_message, last,
          pc, data, n_recv, post_attempts, sent, errors, n_raised, fault

vars == <<callsign_icons, prd_message, adsb_message, last,
          pc, data, n_recv, post_attempts, sent, errors, n_raised, fault>>

lib_vars == <<prd_message, adsb_message, last>>
loop_vars == <<pc, data, n_recv, post_attempts, sent, errors, n_raised, fault>>

(* ---------------------------- bounds ----------------------------------- *)
MaxDatagrams == 2

(* ---------------------------- values ----------------------------------- *)
Str(c) == [kind |-> "str", chars |-> c, num |-> 0]
Num(n) == [kind |-> "num", chars |-> <<>>, num |-> n]
List == [kind |-> "list", chars |-> <<>>, num |-> 0]

Lower == <<"a","b","c","d","e","f","g","h","i","j","k","l","m",
           "n","o","p","q","r","s","t","u","v","w","x","y","z">>
Capital == <<"A","B","C","D","E","F","G","H","I","J","K","L","M",
             "N","O","P","Q","R","S","T","U","V","W","X","Y","Z">>

UpperChar(c) ==
  IF \E i \in 1..Len(Lower) : Lower[i] = c
  THEN Capital[CHOOSE i \in 1..Len(Lower) : Lower[i] = c]
  ELSE c

\* str.upper()
Upper(c) == [i \in 1..Len(c) |-> UpperChar(c[i])]

(* ------------------------ program constants ---------------------------- *)
ABC123 == <<"A","B","C","1","2","3">>
Unknown == <<"U","n","k","n","o","w","n">>
NA == <<"N","/","A">>
DEFAULT_UNKNOWN_AIRCRAFT_ICON ==
  Str(<<"a","s","s","e","t","s","/","i","c","o","n","s","/",
        "c","i","r","c","l","e",".","s","v","g">>)

prd_fields == <<"callsign", "type", "latitude", "longitude", "altitude", "speed", "heading">>
PrdFieldSet == {prd_fields[i] : i \in 1..Len(prd_fields)}

\* class-level attributes of the two classes
ADSBClassAttrs ==
  [callsign |-> Str(<<>>), type |-> Str(<<>>), latitude |-> Num(0), longitude |-> Num(0),
   altitude |-> Num(0), speed |-> Num(0), heading |-> Num(0),
   icon |-> Str(<<>>), tail_number |-> Str(<<>>)]
PRDClassAttrs ==
  [callsign |-> Str(<<>>), type |-> Str(<<>>), latitude |-> Num(0), longitude |-> Num(0),
   altitude |-> Num(0), speed |-> Num(0), heading |-> Num(0),
   icon |-> Str(<<>>)]

ClassAttrs(cls) == IF cls = "ADSBMessage" THEN ADSBClassAttrs
                   ELSE IF cls = "PRDMessage" THEN PRDClassAttrs ELSE <<>>

None == [cls |-> "None", dict |-> <<>>]
NewObject(cls) == [cls |-> cls, dict |-> <<>>]

\* hasattr / getattr / setattr on an instance
HasAttr(obj, k) == k \in DOMAIN obj.dict \/ k \in DOMAIN ClassAttrs(obj.cls)
GetAttr(obj, k) == IF k \in DOMAIN obj.dict THEN obj.dict[k] ELSE ClassAttrs(obj.cls)[k]
SetAttr(obj, k, v) == [obj EXCEPT !.dict = (k :> v) @@ @]

\* names that hasattr finds on a dict object (methods of the built-in dict)
DictAttrs ==
  { <<"g","e","t">>, <<"k","e","y","s">>, <<"i","t","e","m","s">>, <<"p","o","p">>,
    <<"v","a","l","u","e","s">>, <<"c","o","p","y">>, <<"c","l","e","a","r">>,
    <<"u","p","d","a","t","e">> }

\* dict.get(key, default) on the icon table; an unhashable key raises TypeError
Hashable(v) == v.kind # "list"
HasKey(icons, v) == v.kind = "str" /\ v.chars \in DOMAIN icons
DictGet(icons, v, default) == IF HasKey(icons, v) THEN icons[v.chars] ELSE default

(* -------------------- module load of the icon table -------------------- *)
RECURSIVE LoadPairs(_, _)
LoadPairs(doc, acc) ==
  IF doc = <<>> THEN acc
  ELSE LoadPairs(Tail(doc), (Upper(doc[1][1]) :> doc[1][2]) @@ acc)

\* dict([(call.upper(), link) for call, link in CALLSIGN_TO_ICON.items()])
LoadIcons(doc) == LoadPairs(doc, <<>>)

(* ----------------------------- init_objects ---------------------------- *)
FieldDefault(f) == IF f = "callsign" THEN Str(ABC123)
                   ELSE IF f = "type" THEN Str(Unknown) ELSE Num(0)

\* first loop of init_objects: every PRD field from kwargs or its default
SetPrdFields(obj, kwargs) ==
  [obj EXCEPT !.dict =
     [f \in PrdFieldSet |-> IF f \in DOMAIN kwargs THEN kwargs[f] ELSE FieldDefault(f)] @@ @]

\* what is left of kwargs after the pops of the first loop
RemainingKwargs(kwargs) == [k \in DOMAIN kwargs \ PrdFieldSet |-> kwargs[k]]

\* second loop of init_objects: an extra key is set only if hasattr(obj, key) is false
SetExtraAttrs(obj, kwargs) ==
  [obj EXCEPT !.dict =
     [k \in {x \in DOMAIN kwargs : ~HasAttr(obj, x)} |-> kwargs[k]] @@ @]

\* callsign_icons.get(obj.callsign.upper(), callsign_icons.get(obj.type, DEFAULT))
ResolveIconTypeFirst(obj, icons) ==
  DictGet(icons, GetAttr(obj, "type"),
          DictGet(icons, Str(Upper(GetAttr(obj, "callsign").chars)),
                  DEFAULT_UNKNOWN_AIRCRAFT_ICON))

ResolveIcon(obj, icons) ==
  DictGet(icons, Str(Upper(GetAttr(obj, "callsign").chars)),
          DictGet(icons, GetAttr(obj, "type"), DEFAULT_UNKNOWN_AIRCRAFT_ICON))

\* the exception line 48-50 raises, if any: .upper() of a non-str, hash of a list
ResolveIconRaises(obj) ==
  IF GetAttr(obj, "callsign").kind # "str" THEN "AttributeError"
  ELSE IF ~Hashable(GetAttr(obj, "type")) THEN "TypeError"
  ELSE "none"

\* a variant that stores the resolved icon under the callsign (setdefault)
init_objects_caching(obj, kwargs, icons) ==
  LET o1 == SetPrdFields(obj, kwargs)
      o2 == SetExtraAttrs(o1, RemainingKwargs(kwargs))
      exc == ResolveIconRaises(o2)
      key == Upper(GetAttr(o2, "callsign").chars)
  IN IF exc # "none"
     THEN [obj |-> None, raised |-> exc, icons |-> icons]
     ELSE [obj |-> SetAttr(o2, "icon", ResolveIcon(o2, icons)), raised |-> "none",
           icons |-> IF key \in DOMAIN icons THEN icons
                     ELSE (key :> ResolveIcon(o2, icons)) @@ icons]

\* init_objects(obj, kwargs): the initialised object, what was raised, and the
\* icon table as the call leaves it
init_objects(obj, kwargs, icons) ==
  LET o1 == SetPrdFields(obj, kwargs)
      o2 == SetExtraAttrs(o1, RemainingKwargs(kwargs))
      exc == ResolveIconRaises(o2)
  IN IF exc # "none"
     THEN [obj |-> None, raised |-> exc, icons |-> icons]
     ELSE [obj |-> SetAttr(o2, "icon", ResolveIcon(o2, icons)), raised |-> "none",
           icons |-> icons]

(* ------------------------------ PRDMessage ----------------------------- *)
\* PRDMessage(**kwargs)
PRDMessage(kwargs, icons) == init_objects(NewObject("PRDMessage"), kwargs, icons)

\* PRDMessage.to_dict with latitude and longitude exchanged
to_dict_swapped(prd) ==
  [k \in PrdFieldSet \cup {"icon"} |->
     IF k = "latitude" THEN GetAttr(prd, "longitude")
     ELSE IF k = "longitude" THEN GetAttr(prd, "latitude")
     ELSE GetAttr(prd, k)]

\* PRDMessage.to_dict
to_dict(prd) == [k \in PrdFieldSet \cup {"icon"} |-> GetAttr(prd, k)]

\* PRDMessage.from_bytes: the data is not read
from_bytes(buf, icons) == PRDMessage(<<>>, icons)

(* ----------------------------- ADSBMessage ----------------------------- *)
\* a variant that indexes the table without the guard of line 167
TailNumberStepUnguarded(obj, icons) ==
  LET o1 == IF ~HasAttr(obj, "tail_number") THEN SetAttr(obj, "tail_number", Str(NA)) ELSE obj
      tn == GetAttr(o1, "tail_number")
  IN IF tn.kind # "str" THEN [obj |-> None, raised |-> "AttributeError"]
     ELSE IF Upper(tn.chars) \in DOMAIN icons
          THEN [obj |-> SetAttr(o1, "icon", icons[Upper(tn.chars)]), raised |-> "none"]
          ELSE [obj |-> None, raised |-> "KeyError"]

\* lines 165-168 of ADSBMessage.__init__, applied to the initialised object
TailNumberStep(obj, icons) ==
  LET o1 == IF ~HasAttr(obj, "tail_number") THEN SetAttr(obj, "tail_number", Str(NA)) ELSE obj
      tn == GetAttr(o1, "tail_number")
  IN IF tn.kind # "str" THEN [obj |-> None, raised |-> "AttributeError"]
     ELSE IF Upper(tn.chars) \in DictAttrs
          THEN IF Upper(tn.chars) \in DOMAIN icons
               THEN [obj |-> SetAttr(o1, "icon", icons[Upper(tn.chars)]), raised |-> "none"]
               ELSE [obj |-> None, raised |-> "KeyError"]
          ELSE [obj |-> o1, raised |-> "none"]

\* ADSBMessage(**kwargs)
ADSBMessage(kwargs, icons) ==
  LET r == init_objects(NewObject("ADSBMessage"), kwargs, icons)
      t == TailNumberStep(r.obj, r.icons)
  IN IF r.raised # "none" THEN r
     ELSE [obj |-> t.obj, raised |-> t.raised, icons |-> r.icons]

\* dict(adsb_message): ADSBMessage.__iter__ yields the items of the instance __dict__
AsDict(obj) == obj.dict

\* convert_prd_to_adsb
convert_prd_to_adsb(prd, icons) == ADSBMessage(to_dict(prd), icons)

(* ------------------------------- inputs -------------------------------- *)
UAL123 == <<"U","A","L","1","2","3">>
ual123 == <<"u","a","l","1","2","3">>
B738 == <<"B","7","3","8">>
ZZZ == <<"Z","Z","Z">>
N12345 == <<"N","1","2","3","4","5">>
n12345 == <<"n","1","2","3","4","5">>
IconUal == Str(<<"i","c","o","n","s","/","u","a","l",".","s","v","g">>)
IconOld == Str(<<"o","l","d",".","s","v","g">>)
IconB738 == Str(<<"b","7","3","8",".","s","v","g">>)
IconTail == Str(<<"t","a","i","l",".","s","v","g">>)
IconUnk == Str(<<"u","n","k",".","s","v","g">>)
IconAbc == Str(<<"a","b","c",".","s","v","g">>)
IconGiven == Str(<<"m","i","n","e",".","s","v","g">>)

\* contents of config/callsigns_to_icons.yaml, as the (key, value) pairs in file order
YamlDocs ==
  { <<>>,
    << <<UAL123, IconUal>> >>,
    << <<UAL123, IconOld>>, <<ual123, IconUal>>, <<B738, IconB738>>, <<n12345, IconTail>> >>,
    << <<B738, IconB738>>, <<Unknown, IconUnk>>, <<ABC123, IconAbc>>, <<N12345, IconTail>> >> }

\* keyword arguments handed to the constructors
OneArg(k, vals) == {<<>>} \cup {(k :> v) : v \in vals}
NumericArgs ==
  { <<>>,
    [latitude |-> Num(40), longitude |-> Num(-75), altitude |-> Num(35000),
     speed |-> Num(450), heading |-> Num(270)] }
ExtraArgs == { <<>>, [icon |-> IconGiven, squawk |-> Num(7700)] }
KwargsSet ==
  { a @@ b @@ c @@ d @@ e :
      a \in OneArg("callsign", {Str(UAL123), Str(ual123), Num(5)}),
      b \in OneArg("type", {Str(B738), List}),
      c \in NumericArgs,
      d \in OneArg("tail_number", {Str(n12345)}),
      e \in ExtraArgs }

\* position reports put on the wire, and a fixed layout of one cell per PRD field
Reports ==
  { [callsign |-> Str(UAL123), type |-> Str(B738), latitude |-> Num(40),
     longitude |-> Num(-75), altitude |-> Num(35000), speed |-> Num(450),
     heading |-> Num(270)],
    [callsign |-> Str(ABC123), type |-> Str(Unknown), latitude |-> Num(0),
     longitude |-> Num(0), altitude |-> Num(0), speed |-> Num(0), heading |-> Num(0)] }
Encode(report) == [i \in 1..Len(prd_fields) |-> report[prd_fields[i]]]
MinLayoutLen == Len(prd_fields)
Buffers ==
  {Encode(r) : r \in Reports}
    \cup {SubSeq(Encode(r), 1, n) : r \in Reports, n \in 0..(MinLayoutLen - 1)}

(* ------------------------------- state --------------------------------- *)
NoCall == [op |-> "none", kwargs |-> <<>>, buf |-> <<>>, prd |-> None, raised |-> "none"]

Init ==
  /\ \E found \in BOOLEAN, doc \in YamlDocs :
        callsign_icons = IF found THEN LoadIcons(doc) ELSE <<>>
  /\ prd_message = None
  /\ adsb_message = None
  /\ last = NoCall
  /\ pc = "recv"
  /\ data = <<>>
  /\ n_recv = 0
  /\ post_attempts = 0
  /\ sent = <<>>
  /\ errors = 0
  /\ n_raised = 0
  /\ fault = "none"

(* ------------------------ calls of the library ------------------------- *)
NewPRDMessage(kwargs) ==
  LET r == PRDMessage(kwargs, callsign_icons)
  IN /\ callsign_icons' = r.icons
     /\ prd_message' = r.obj
     /\ adsb_message' = None
     /\ last' = [NoCall EXCEPT !.op = "PRDMessage", !.kwargs = kwargs, !.raised = r.raised]
     /\ UNCHANGED loop_vars

NewADSBMessage(kwargs) ==
  LET r == ADSBMessage(kwargs, callsign_icons)
  IN /\ callsign_icons' = r.icons
     /\ adsb_message' = r.obj
     /\ prd_message' = None
     /\ last' = [NoCall EXCEPT !.op = "ADSBMessage", !.kwargs = kwargs, !.raised = r.raised]
     /\ UNCHANGED loop_vars

FromBytes(buf) ==
  LET r == from_bytes(buf, callsign_icons)
  IN /\ callsign_icons' = r.icons
     /\ prd_message' = r.obj
     /\ adsb_message' = None
     /\ last' = [NoCall EXCEPT !.op = "from_bytes", !.buf = buf, !.raised = r.raised]
     /\ UNCHANGED loop_vars

ConvertPrdToAdsb ==
  /\ prd_message # None
  /\ LET r == convert_prd_to_adsb(prd_message, callsign_icons)
     IN /\ callsign_icons' = r.icons
        /\ adsb_message' = r.obj
        /\ last' = [NoCall EXCEPT !.op = "convert_prd_to_adsb", !.prd = prd_message,
                                  !.raised = r.raised]
  /\ UNCHANGED prd_message
  /\ UNCHANGED loop_vars

Next ==
  \/ \E kwargs \in KwargsSet : NewPRDMessage(kwargs)
  \/ \E kwargs \in KwargsSet : NewADSBMessage(kwargs)
  \/ \E buf \in Buffers : FromBytes(buf)
  \/ ConvertPrdToAdsb

Spec == Init /\ [][Next]_vars

(* ----------------------- the receive loop of main ---------------------- *)
\* a handler that leaves the loop on any exception
AfterExceptBreaks(exc) == "exited"

\* where the loop goes after the except clauses: KeyboardInterrupt breaks,
\* any other Exception is logged and the while loop goes round again
AfterExcept(exc) == IF exc = "KeyboardInterrupt" THEN "exited" ELSE "recv"

\* the except clause that exc reaches
Handle(exc) ==
  /\ pc' = AfterExcept(exc)
  /\ fault' = exc
  /\ errors' = IF exc = "KeyboardInterrupt" THEN errors ELSE errors + 1
  /\ n_raised' = IF exc = "KeyboardInterrupt" THEN n_raised ELSE n_raised + 1

NoFault ==
  /\ fault' = "none"
  /\ UNCHANGED <<errors, n_raised>>

\* sock.recvfrom(1024) returns a datagram
Recv(buf) ==
  /\ pc = "recv"
  /\ n_recv < MaxDatagrams
  /\ data' = buf
  /\ n_recv' = n_recv + 1
  /\ pc' = "decode"
  /\ NoFault
  /\ UNCHANGED <<callsign_icons, lib_vars, post_attempts, sent>>

\* sock.recvfrom(1024) raises
RecvFails ==
  /\ pc = "recv"
  /\ n_raised < MaxDatagrams
  /\ Handle("OSError")
  /\ UNCHANGED <<callsign_icons, lib_vars, data, n_recv, post_attempts, sent>>

\* prd_message = PRDMessage.from_bytes(data)
Decode ==
  /\ pc = "decode"
  /\ LET r == from_bytes(data, callsign_icons)
     IN /\ callsign_icons' = r.icons
        /\ IF r.raised = "none"
           THEN prd_message' = r.obj /\ pc' = "convert" /\ NoFault
           ELSE UNCHANGED prd_message /\ Handle(r.raised)
  /\ UNCHANGED <<adsb_message, last, data, n_recv, post_attempts, sent>>

\* adsb_message = convert_prd_to_adsb(prd_message)
Convert ==
  /\ pc = "convert"
  /\ LET r == convert_prd_to_adsb(prd_message, callsign_icons)
     IN /\ callsign_icons' = r.icons
        /\ IF r.raised = "none"
           THEN adsb_message' = r.obj /\ pc' = "post" /\ NoFault
           ELSE UNCHANGED adsb_message /\ Handle(r.raised)
  /\ UNCHANGED <<prd_message, last, data, n_recv, post_attempts, sent>>

\* requests.post(..., json=dict(adsb_message)) returns
Post ==
  /\ pc = "post"
  /\ post_attempts' = post_attempts + 1
  /\ sent' = Append(sent, AsDict(adsb_message))
  /\ pc' = "log"
  /\ NoFault
  /\ UNCHANGED <<callsign_icons, lib_vars, data, n_recv>>

\* requests.post raises (connection refused, timeout, ...)
PostFails ==
  /\ pc = "post"
  /\ post_attempts' = post_attempts + 1
  /\ Handle("ConnectionError")
  /\ UNCHANGED <<callsign_icons, lib_vars, data, n_recv, sent>>

\* logger.info("Sent ADS-B message ..."), then back to the top of the loop
LogSent ==
  /\ pc = "log"
  /\ pc' = "recv"
  /\ NoFault
  /\ UNCHANGED <<callsign_icons, lib_vars, data, n_recv, post_attempts, sent>>

\* Ctrl-C anywhere inside the try block
Interrupt ==
  /\ pc # "exited"
  /\ Handle("KeyboardInterrupt")
  /\ UNCHANGED <<callsign_icons, lib_vars, data, n_recv, post_attempts, sent>>

LoopNext ==
  \/ \E buf \in Buffers : Recv(buf)
  \/ RecvFails
  \/ Decode
  \/ Convert
  \/ Post
  \/ PostFails
  \/ LogSent
  \/ Interrupt

LoopSpec == Init /\ [][LoopNext]_vars

(* ------------------------------ properties ----------------------------- *)
Built == IF last.op = "PRDMessage" THEN prd_message ELSE adsb_message
AttrNames == DOMAIN ADSBClassAttrs

\* the icon the documented resolution order selects
ExpectedIcon(callsign, type, icons) ==
  IF Upper(callsign.chars) \in DOMAIN icons THEN icons[Upper(callsign.chars)]
  ELSE IF type.kind = "str" /\ type.chars \in DOMAIN icons THEN icons[type.chars]
  ELSE DEFAULT_UNKNOWN_AIRCRAFT_ICON

\* C1: a message built by PRDMessage(...) or ADSBMessage(...) without a tail
\* number gets the icon of its uppercased callsign if that is a key of the table,
\* else the icon of its type if that is a key, else the default icon.
C1_IconResolutionOrder ==
  (/\ last.op \in {"PRDMessage", "ADSBMessage"}
   /\ last.raised = "none"
   /\ "tail_number" \notin DOMAIN last.kwargs)
  => GetAttr(Built, "icon")
       = ExpectedIcon(GetAttr(Built, "callsign"), GetAttr(Built, "type"), callsign_icons)

\* a lowercase callsign and a type that are both keys, with different icons: the
\* callsign's icon is chosen
C1_Witness ==
  /\ last.op = "ADSBMessage"
  /\ last.raised = "none"
  /\ "tail_number" \notin DOMAIN last.kwargs
  /\ GetAttr(adsb_message, "callsign") = Str(ual123)
  /\ UAL123 \in DOMAIN callsign_icons
  /\ HasKey(callsign_icons, GetAttr(adsb_message, "type"))
  /\ callsign_icons[UAL123] # callsign_icons[GetAttr(adsb_message, "type").chars]
  /\ GetAttr(adsb_message, "icon") = callsign_icons[UAL123]

\* C2: an ADSBMessage constructed with a tail_number whose uppercased value is a
\* key of the icon table has that key's icon.
C2_TailNumberOverride ==
  (/\ last.op = "ADSBMessage"
   /\ last.raised = "none"
   /\ "tail_number" \in DOMAIN last.kwargs
   /\ Upper(last.kwargs["tail_number"].chars) \in DOMAIN callsign_icons)
  => GetAttr(adsb_message, "icon")
       = callsign_icons[Upper(last.kwargs["tail_number"].chars)]

\* C3: an ADSBMessage produced without a supplied tail number has tail_number "N/A".
C3_TailNumberSentinel ==
  (/\ last.op \in {"ADSBMessage", "convert_prd_to_adsb"}
   /\ last.raised = "none"
   /\ "tail_number" \notin DOMAIN last.kwargs)
  => GetAttr(adsb_message, "tail_number") = Str(NA)

\* C4: every JSON body the receive loop posts holds all nine AircraftState
\* attributes, tail_number included.
C4_SerializationComplete ==
  \A i \in 1..Len(sent) : AttrNames \subseteq DOMAIN sent[i]

\* C5: from_bytes of a buffer shorter than the minimum layout (the empty buffer
\* included) fails with MalformedMessage and returns no position report.
C5_DecodeRejectsShort ==
  (last.op = "from_bytes" /\ Len(last.buf) < MinLayoutLen)
  => (last.raised = "MalformedMessage" /\ prd_message = None)

\* C6: once a valid encoded buffer is decoded and converted, the seven base
\* fields of the ADSBMessage equal the values encoded in the buffer.
C6_RoundTrip ==
  (pc = "post" /\ \E r \in Reports : data = Encode(r))
  => \A i \in 1..Len(prd_fields) : GetAttr(adsb_message, prd_fields[i]) = data[i]

\* C7: an exception other than KeyboardInterrupt raised while a datagram is
\* received, decoded, converted or posted is logged, the datagram is dropped
\* without a second POST, and the loop is back at the receive; only a
\* KeyboardInterrupt ends the loop.
C7_LoopSurvives ==
  /\ fault \notin {"none", "KeyboardInterrupt"} => pc = "recv"
  /\ pc = "exited" => fault = "KeyboardInterrupt"
  /\ errors = n_raised
  /\ post_attempts <= n_recv
  /\ Len(sent) + errors >= post_attempts

\* a POST failed, was logged once, and the next datagram was received and posted
C7_Witness ==
  /\ pc = "log"
  /\ n_recv = 2
  /\ errors = 1
  /\ post_attempts = 2
  /\ Len(sent) = 1

\* C8: convert_prd_to_adsb of a PRDMessage returns an ADSBMessage and raises nothing.
C8_NormalizeTotal ==
  last.op = "convert_prd_to_adsb"
  => (last.raised = "none" /\ adsb_message.cls = "ADSBMessage")

\* a PRDMessage built with extra keyword fields, whose callsign and type are not
\* in a non-empty table, was converted
C8_Witness ==
  /\ last.op = "convert_prd_to_adsb"
  /\ "tail_number" \in DOMAIN last.prd.dict
  /\ callsign_icons # <<>>
  /\ GetAttr(adsb_message, "icon") = DEFAULT_UNKNOWN_AIRCRAFT_ICON
  /\ adsb_message.cls = "ADSBMessage"

\* C9: no call of PRDMessage(...), from_bytes, ADSBMessage(...) or
\* convert_prd_to_adsb changes the icon table loaded at module load.
C9_TableReadOnly == [][callsign_icons' = callsign_icons]_vars

\* a conversion of a message carrying extra keyword fields, whose callsign is not
\* a key of a non-empty table
C9_Witness ==
  /\ last.op = "convert_prd_to_adsb"
  /\ "squawk" \in DOMAIN last.prd.dict
  /\ callsign_icons # <<>>
  /\ Upper(GetAttr(last.prd, "callsign").chars) \notin DOMAIN callsign_icons

\* C10: the ADSBMessage that convert_prd_to_adsb returns has the seven base
\* fields of the PRDMessage, and the PRDMessage is as it was before the call.
C10_VerbatimCopy ==
  (last.op = "convert_prd_to_adsb" /\ last.raised = "none")
  => /\ \A f \in PrdFieldSet : GetAttr(adsb_message, f) = GetAttr(last.prd, f)
     /\ prd_message = last.prd

\* a conversion of a message with given coordinates and the default type
C10_Witness ==
  /\ last.op = "convert_prd_to_adsb"
  /\ GetAttr(adsb_message, "latitude") = Num(40)
  /\ GetAttr(adsb_message, "longitude") = Num(-75)
  /\ GetAttr(adsb_message, "type") = Str(Unknown)
  /\ GetAttr(last.prd, "type") = Str(Unknown)

====
